---------------------------- MODULE Spec2Model ----------------------------
(***************************************************************************)
(* A model of the regigigas crate: the NamespacedID identifier type with   *)
(* its validation and its process-wide interner (src/src/nsid.rs), the     *)
(* error conversions (src/src/err.rs) and the arena-backed Registry<T>     *)
(* with its categories (src/src/lib.rs).                                   *)
(*                                                                         *)
(* A string is a sequence of Unicode scalar values (a Rust `char` is its   *)
(* code point); byte offsets are computed from the UTF-8 width of each     *)
(* char, so that `char_indices` yields what it yields in Rust.             *)
(***************************************************************************)
EXTENDS Integers, Sequences, FiniteSets, TLC

VARIABLES
  interner,           \* NSID_INTERNER's Rodeo: the interned strings, in key order
  hist,               \* SpecParse: the calls made so far, each with its return value
  writer,             \* SpecLock: the thread holding the RwLock's write guard, or 0
  readers,            \* SpecLock: the threads holding a read guard
  pc,                 \* SpecLock: each thread's position
  local,              \* SpecLock: each thread's arguments and locals
  ret,                \* SpecLock: each thread's last return value
  held,               \* SpecLock: the NamespacedID each thread last obtained
  arena,              \* Registry.arena
  nsid_map,           \* Registry.nsid_map
  category_arena,     \* Registry.category_arena
  category_nsid_map,  \* Registry.category_nsid_map
  issued,             \* SpecReg: the successful register calls, in order
  cissued,            \* SpecReg: the category handles returned so far
  rlast               \* SpecReg: the last registry call with its return value

vars == <<interner, hist, writer, readers, pc, local, ret, held,
          arena, nsid_map, category_arena, category_nsid_map,
          issued, cissued, rlast>>

nsidVars == <<interner, hist>>
lockVars == <<writer, readers, pc, local, ret, held>>
regVars  == <<arena, nsid_map, category_arena, category_nsid_map,
              issued, cissued, rlast>>

---------------------------------------------------------------------------
(* Characters                                                              *)

Colon == 58
ChA == 97
ChZ == 122
Ch0 == 48
Ch9 == 57
ChDash == 45
ChUnderscore == 95
ChDot == 46
ChSlash == 47
\* characters the inputs use besides those: 'b', 'c', 'd', '!' and the
\* two-byte U+00E9
Chr == [b |-> 98, c |-> 99, d |-> 100, bang |-> 33, eacute |-> 233]
ChB == Chr.b
ChC == Chr.c
ChD == Chr.d
ChBang == Chr.bang
ChEAcute == Chr.eacute

\* char::len_utf8
len_utf8(c) ==
  IF c < 128 THEN 1 ELSE IF c < 2048 THEN 2 ELSE IF c < 65536 THEN 3 ELSE 4

is_valid_namespace_char(chr) ==
  \/ (ChA <= chr /\ chr <= ChZ)
  \/ (Ch0 <= chr /\ chr <= Ch9)
  \/ chr \in {ChDash, ChUnderscore}

is_valid_path_char(chr) ==
  \/ (ChA <= chr /\ chr <= ChZ)
  \/ (Ch0 <= chr /\ chr <= Ch9)
  \/ chr \in {ChDot, ChSlash, ChDash, ChUnderscore}

---------------------------------------------------------------------------
(* Strings                                                                 *)

RECURSIVE byte_len(_)
\* str::len: the length of s in bytes
byte_len(s) ==
  IF s = <<>> THEN 0 ELSE len_utf8(Head(s)) + byte_len(Tail(s))

\* str::char_indices: each char with the byte offset at which it starts
char_indices(s) ==
  [i \in 1..Len(s) |-> [idx |-> byte_len(SubSeq(s, 1, i - 1)), chr |-> s[i]]]

\* str::chars().count()
chars_count(s) == Len(s)

SetMin(S) == CHOOSE x \in S : \A y \in S : x <= y

SetMax(S) == CHOOSE x \in S : \A y \in S : x >= y

\* str::rsplit_once: the split at the last delimiter
rsplit_once(s, delim) ==
  LET at == {i \in 1..Len(s) : s[i] = delim}
  IN  IF at = {} THEN [tag |-> "None"]
      ELSE [tag |-> "Some",
            ns |-> SubSeq(s, 1, SetMax(at) - 1),
            path |-> SubSeq(s, SetMax(at) + 1, Len(s))]

\* str::split_once(':'): the parts before and after the first delimiter
split_once(s, delim) ==
  LET at == {i \in 1..Len(s) : s[i] = delim}
  IN  IF at = {} THEN [tag |-> "None"]
      ELSE [tag |-> "Some",
            ns |-> SubSeq(s, 1, SetMin(at) - 1),
            path |-> SubSeq(s, SetMin(at) + 1, Len(s))]

---------------------------------------------------------------------------
(* Errors (src/src/err.rs)                                                 *)

Ok == [tag |-> "Ok"]
InvalidNamespaceEmpty == [tag |-> "InvalidNamespace", kind |-> "Empty"]
InvalidNamespaceBadChar(idx, c) ==
  [tag |-> "InvalidNamespace", kind |-> "BadChar", idx |-> idx, chr |-> c]
InvalidPathEmpty == [tag |-> "InvalidPath", kind |-> "Empty"]
InvalidPathBadChar(idx, c) ==
  [tag |-> "InvalidPath", kind |-> "BadChar", idx |-> idx, chr |-> c]
NoSeparator == [tag |-> "NoSeparator"]
\* From<TryLockError<T>> for NSIDParseError
InternerError(msg) == [tag |-> "InternerError", msg |-> msg]
WouldBlock == "WouldBlock"
OkId(id) == [tag |-> "Ok", id |-> id]

---------------------------------------------------------------------------
(* Validation                                                              *)

\* check_namespace reporting the position from 1
check_namespace_from_one(s) ==
  IF s = <<>> THEN InvalidNamespaceEmpty
  ELSE LET ci == char_indices(s)
           bad == {i \in 1..Len(s) : ~is_valid_namespace_char(ci[i].chr)}
       IN  IF bad = {} THEN Ok
           ELSE InvalidNamespaceBadChar(ci[SetMin(bad)].idx + 1, ci[SetMin(bad)].chr)

check_namespace(s) ==
  IF s = <<>> THEN InvalidNamespaceEmpty
  ELSE LET ci == char_indices(s)
           bad == {i \in 1..Len(s) : ~is_valid_namespace_char(ci[i].chr)}
       IN  IF bad = {} THEN Ok
           ELSE InvalidNamespaceBadChar(ci[SetMin(bad)].idx, ci[SetMin(bad)].chr)

check_path(s) ==
  IF s = <<>> THEN InvalidPathEmpty
  ELSE LET ci == char_indices(s)
           bad == {i \in 1..Len(s) : ~is_valid_path_char(ci[i].chr)}
       IN  IF bad = {} THEN Ok
           ELSE InvalidPathBadChar(ci[SetMin(bad)].idx, ci[SetMin(bad)].chr)

---------------------------------------------------------------------------
(* The interner: a lasso Rodeo behind NSID_INTERNER                        *)

\* Rodeo::get: the key of s, if it was interned
rodeo_get(rodeo, s) == {k \in 1..Len(rodeo) : rodeo[k] = s}

\* get_or_intern that never finds the string it is given
get_or_intern_always_new(rodeo, s) ==
  [rodeo |-> Append(rodeo, s), key |-> Len(rodeo) + 1]

\* get_or_intern that puts a new string ahead of the ones it has
get_or_intern_in_front(rodeo, s) ==
  IF rodeo_get(rodeo, s) # {}
  THEN [rodeo |-> rodeo, key |-> SetMin(rodeo_get(rodeo, s))]
  ELSE [rodeo |-> <<s>> \o rodeo, key |-> 1]

\* Rodeo::get_or_intern
get_or_intern(rodeo, s) ==
  IF rodeo_get(rodeo, s) # {}
  THEN [rodeo |-> rodeo, key |-> SetMin(rodeo_get(rodeo, s))]
  ELSE [rodeo |-> Append(rodeo, s), key |-> Len(rodeo) + 1]

\* Rodeo::resolve
resolve(rodeo, key) == rodeo[key]

NamespacedID(ns, p) == [namespace |-> ns, path |-> p]

\* The interning both constructors perform once they hold the write guard.
intern_parts(rodeo, ns_str, path_str) ==
  LET a == get_or_intern(rodeo, ns_str)
      b == get_or_intern(a.rodeo, path_str)
  IN  [rodeo |-> b.rodeo, ret |-> OkId(NamespacedID(a.key, b.key))]

---------------------------------------------------------------------------
(* NamespacedID's constructors and Display                                 *)

\* map_err that leaves the index where check_path found it
map_path_err_in_path(ns_char_len, e) == e

\* map_err that forgets the colon
map_path_err_no_colon(ns_char_len, e) ==
  IF e.tag = "InvalidPath" /\ e.kind = "BadChar"
  THEN InvalidPathBadChar(ns_char_len + e.idx, e.chr)
  ELSE e

\* The closure given to map_err in from_str: a BadChar index found in the
\* path is moved past the namespace and the colon.
map_path_err(ns_char_len, e) ==
  IF e.tag = "InvalidPath" /\ e.kind = "BadChar"
  THEN InvalidPathBadChar(ns_char_len + 1 + e.idx, e.chr)
  ELSE e

\* from_str up to the `?` after check_path: the error it returns early,
\* or the two segments it goes on to intern.
from_str_checks(s) ==
  LET sp == split_once(s, Colon)
  IN  IF sp.tag = "None" THEN NoSeparator
      ELSE IF check_namespace(sp.ns) # Ok THEN check_namespace(sp.ns)
      ELSE IF check_path(sp.path) # Ok
           THEN map_path_err(chars_count(sp.ns), check_path(sp.path))
           ELSE [tag |-> "Ok", ns |-> sp.ns, path |-> sp.path]

\* new_from_parts up to the second `?`.
new_from_parts_checks(namespace_str, path_str) ==
  IF check_namespace(namespace_str) # Ok THEN check_namespace(namespace_str)
  ELSE IF check_path(namespace_str) # Ok THEN check_path(namespace_str)
  ELSE [tag |-> "Ok", ns |-> namespace_str, path |-> path_str]

\* try_write that does not see the readers
try_write_past_readers(w, rs) == IF w = 0 THEN "Guard" ELSE WouldBlock

\* RwLock::try_write / try_read on a lock nobody has poisoned.
try_write(w, rs) == IF w = 0 /\ rs = {} THEN "Guard" ELSE WouldBlock
try_read(w, rs) == IF w = 0 THEN "Guard" ELSE WouldBlock

\* <NamespacedID as FromStr>::from_str, run without interruption.
from_str(rodeo, s, w, rs) ==
  LET c == from_str_checks(s)
  IN  IF c.tag # "Ok" THEN [rodeo |-> rodeo, ret |-> c]
      ELSE IF try_write(w, rs) # "Guard"
           THEN [rodeo |-> rodeo, ret |-> InternerError(try_write(w, rs))]
           ELSE intern_parts(rodeo, c.ns, c.path)

\* NamespacedID::new_from_parts, run without interruption.
new_from_parts(rodeo, namespace_str, path_str, w, rs) ==
  LET c == new_from_parts_checks(namespace_str, path_str)
  IN  IF c.tag # "Ok" THEN [rodeo |-> rodeo, ret |-> c]
      ELSE IF try_write(w, rs) # "Guard"
           THEN [rodeo |-> rodeo, ret |-> InternerError(try_write(w, rs))]
           ELSE intern_parts(rodeo, c.ns, c.path)

Str(s) == [tag |-> "Str", str |-> s]
Panic == [tag |-> "Panic"]

\* <NamespacedID as Display>::fmt, run without interruption.
fmt(rodeo, id, w, rs) ==
  IF try_read(w, rs) # "Guard" THEN Panic
  ELSE Str(resolve(rodeo, id.namespace) \o <<Colon>> \o resolve(rodeo, id.path))

---------------------------------------------------------------------------
(* SpecParse: one thread calls the constructors and Display on inputs      *)
(* drawn from bounded sets of strings; the interner lock is free.          *)

MaxLen == 4      \* longest string given to from_str
MaxPart == 2     \* longest segment given to new_from_parts
MaxCalls == 3    \* calls in one behaviour

Alphabet == {ChA, ChDot, Colon, ChBang, ChEAcute}
StringsUpTo(n) == UNION {[1..k -> Alphabet] : k \in 0..n}

\* "ab:c!d"
Sample1 == <<ChA, ChB, Colon, ChC, ChBang, ChD>>
Samples == {Sample1}

\* What the interner holds when the behaviour starts: nothing, or what
\* nsid("a:a"), then nsid("a:a.") left in it.
InitialInterners == {<<>>, << <<ChA>> >>, << <<ChA>>, <<ChA, ChDot>> >>}

ReturnedIds == {hist[i].ret.id : i \in {j \in 1..Len(hist) : hist[j].ret.tag = "Ok"}}
Formatted == {hist[i].ret.str : i \in {j \in 1..Len(hist) : hist[j].ret.tag = "Str"}}

Call(op, arg, r) == [op |-> op, arg |-> arg, ret |-> r]

InitParse ==
  /\ interner \in InitialInterners
  /\ hist = <<>>
  /\ writer = 0 /\ readers = {}
  /\ pc = <<>> /\ local = <<>> /\ ret = <<>> /\ held = <<>>
  /\ arena = <<>> /\ nsid_map = <<>>
  /\ category_arena = <<>> /\ category_nsid_map = <<>>
  /\ issued = <<>> /\ cissued = {} /\ rlast = <<>>

\* s.parse::<NamespacedID>() / NamespacedID::new(s)
ParseFromStr ==
  /\ Len(hist) < MaxCalls
  /\ \E s \in (IF hist = <<>> THEN StringsUpTo(MaxLen) \cup Samples ELSE Formatted) :
       LET r == from_str(interner, s, writer, readers)
       IN  /\ interner' = r.rodeo
           /\ hist' = Append(hist, Call("from_str", <<s>>, r.ret))
  /\ UNCHANGED <<lockVars, regVars>>

ParseNewFromParts ==
  /\ hist = <<>>
  /\ \E n \in StringsUpTo(MaxPart), p \in StringsUpTo(MaxPart) :
       LET r == new_from_parts(interner, n, p, writer, readers)
       IN  /\ interner' = r.rodeo
           /\ hist' = Append(hist, Call("new_from_parts", <<n, p>>, r.ret))
  /\ UNCHANGED <<lockVars, regVars>>

\* id.to_string()
ParseFmt ==
  /\ Len(hist) < MaxCalls
  /\ \E id \in ReturnedIds :
       hist' = Append(hist, Call("fmt", <<id>>, fmt(interner, id, writer, readers)))
  /\ UNCHANGED <<interner, lockVars, regVars>>

NextParse == ParseFromStr \/ ParseNewFromParts \/ ParseFmt

SpecParse == InitParse /\ [][NextParse]_vars

---------------------------------------------------------------------------
(* SpecLock: threads call the constructors and the accessors against the   *)
(* one interner.  A step is what a thread does between two uses of the     *)
(* lock: the checks that precede try_write, one use of the guard, the      *)
(* drop of the guard at the end of the function.                           *)

NThreads == 2
Threads == 1..NThreads

\* "a:.", "a"
LockStrings == {<<ChA, Colon, ChDot>>, <<ChA>>}
\* ("a", "!")
LockParts == {<< <<ChA>>, <<ChBang>> >>}
ReadOps == {"namespace", "path", "dissolve", "fmt"}

NoId == NamespacedID(0, 0)
None == [tag |-> "None"]

InitLock ==
  /\ interner = <<>>
  /\ hist = <<>>
  /\ writer = 0 /\ readers = {}
  /\ pc = [t \in Threads |-> "idle"]
  /\ local = [t \in Threads |-> None]
  /\ ret = [t \in Threads |-> None]
  /\ held = [t \in Threads |-> NoId]
  /\ arena = <<>> /\ nsid_map = <<>>
  /\ category_arena = <<>> /\ category_nsid_map = <<>>
  /\ issued = <<>> /\ cissued = {} /\ rlast = <<>>

\* What a constructor does before it touches the lock: it returns the
\* validation error, or goes on to try_write with the two segments.  The
\* caller has dropped the previous call's return value.
AfterChecks(t, c) ==
  IF c.tag # "Ok"
  THEN /\ ret' = [ret EXCEPT ![t] = c]
       /\ UNCHANGED <<pc, local>>
  ELSE /\ pc' = [pc EXCEPT ![t] = "try_write"]
       /\ local' = [local EXCEPT ![t] = [ns |-> c.ns, path |-> c.path]]
       /\ ret' = [ret EXCEPT ![t] = None]

\* from_str, lines 130-145
CallFromStr(t) ==
  /\ pc[t] = "idle"
  /\ \E s \in LockStrings : AfterChecks(t, from_str_checks(s))
  /\ UNCHANGED <<interner, hist, writer, readers, held, regVars>>

\* new_from_parts, lines 78-82
CallNewFromParts(t) ==
  /\ pc[t] = "idle"
  /\ \E a \in LockParts : AfterChecks(t, new_from_parts_checks(a[1], a[2]))
  /\ UNCHANGED <<interner, hist, writer, readers, held, regVars>>

\* `NSID_INTERNER.try_write()?`
TryWrite(t) ==
  /\ pc[t] = "try_write"
  /\ IF try_write(writer, readers) = "Guard"
     THEN /\ writer' = t
          /\ pc' = [pc EXCEPT ![t] = "intern_ns"]
          /\ UNCHANGED <<ret, local>>
     ELSE /\ ret' = [ret EXCEPT ![t] = InternerError(try_write(writer, readers))]
          /\ pc' = [pc EXCEPT ![t] = "idle"]
          /\ local' = [local EXCEPT ![t] = None]
          /\ UNCHANGED writer
  /\ UNCHANGED <<interner, hist, readers, held, regVars>>

\* `let ns = interner.get_or_intern(namespace);`
InternNamespace(t) ==
  /\ pc[t] = "intern_ns"
  /\ LET a == get_or_intern(interner, local[t].ns)
     IN  /\ interner' = a.rodeo
         /\ local' = [local EXCEPT ![t] = [ns_key |-> a.key, path |-> local[t].path]]
  /\ pc' = [pc EXCEPT ![t] = "intern_path"]
  /\ UNCHANGED <<hist, writer, readers, ret, held, regVars>>

\* `let p = interner.get_or_intern(path); Ok(Self { .. })`, and the guard
\* is dropped as the function returns
InternPath(t) ==
  /\ pc[t] = "intern_path"
  /\ LET b == get_or_intern(interner, local[t].path)
         id == NamespacedID(local[t].ns_key, b.key)
     IN  /\ interner' = b.rodeo
         /\ ret' = [ret EXCEPT ![t] = OkId(id)]
         /\ held' = [held EXCEPT ![t] = id]
  /\ writer' = 0
  /\ pc' = [pc EXCEPT ![t] = "idle"]
  /\ local' = [local EXCEPT ![t] = None]
  /\ UNCHANGED <<hist, readers, regVars>>

\* A thread calls namespace(), path(), dissolve() or to_string() on an
\* identifier it holds.
CallRead(t) ==
  /\ pc[t] = "idle"
  /\ held[t] # NoId
  /\ \E op \in ReadOps :
       local' = [local EXCEPT ![t] =
                   [op |-> op, id |-> held[t],
                    part |-> IF op = "dissolve" THEN "namespace" ELSE op,
                    first |-> <<>>]]
  /\ pc' = [pc EXCEPT ![t] = "try_read"]
  /\ ret' = [ret EXCEPT ![t] = None]
  /\ UNCHANGED <<interner, hist, writer, readers, held, regVars>>

\* `NSID_INTERNER.try_read().unwrap()`
TryRead(t) ==
  /\ pc[t] = "try_read"
  /\ IF try_read(writer, readers) = "Guard"
     THEN /\ readers' = readers \cup {t}
          /\ pc' = [pc EXCEPT ![t] = "reading"]
          /\ UNCHANGED <<ret, local, held>>
     ELSE /\ ret' = [ret EXCEPT ![t] = Panic]
          /\ pc' = [pc EXCEPT ![t] = "panicked"]
          /\ local' = [local EXCEPT ![t] = None]
          /\ held' = [held EXCEPT ![t] = NoId]
          /\ UNCHANGED readers
  /\ UNCHANGED <<interner, hist, writer, regVars>>

\* What one accessor reads under its guard.
Resolved(rodeo, part, id) ==
  IF part = "namespace" THEN resolve(rodeo, id.namespace)
  ELSE IF part = "path" THEN resolve(rodeo, id.path)
  ELSE resolve(rodeo, id.namespace) \o <<Colon>> \o resolve(rodeo, id.path)

\* The accessor resolves, copies the string out and drops its guard;
\* dissolve() goes on from namespace() to path().
Read(t) ==
  /\ pc[t] = "reading"
  /\ readers' = readers \ {t}
  /\ LET s == Resolved(interner, local[t].part, local[t].id)
     IN  IF local[t].op = "dissolve" /\ local[t].part = "namespace"
         THEN /\ local' = [local EXCEPT ![t] = [local[t] EXCEPT !.part = "path", !.first = s]]
              /\ pc' = [pc EXCEPT ![t] = "try_read"]
              /\ UNCHANGED ret
         ELSE /\ ret' = [ret EXCEPT ![t] =
                          IF local[t].op = "dissolve"
                          THEN [tag |-> "Pair", ns |-> local[t].first, path |-> s]
                          ELSE Str(s)]
              /\ pc' = [pc EXCEPT ![t] = "idle"]
              /\ local' = [local EXCEPT ![t] = None]
  /\ UNCHANGED <<interner, hist, writer, held, regVars>>

NextLock ==
  \E t \in Threads :
    \/ CallFromStr(t)
    \/ CallNewFromParts(t)
    \/ TryWrite(t)
    \/ InternNamespace(t)
    \/ InternPath(t)
    \/ CallRead(t)
    \/ TryRead(t)
    \/ Read(t)

SpecLock == InitLock /\ [][NextLock]_vars

---------------------------------------------------------------------------
(* Registry<T> (src/src/lib.rs)                                            *)
(*                                                                         *)
(* An id_arena Arena is the sequence of its items; the id of an item is    *)
(* its index, from 0.  An AHashMap is a function on its keys, an AHashSet  *)
(* a set.                                                                  *)

Some(x) == [tag |-> "Some", val |-> x]

\* Arena::alloc that numbers the items from one
arena_alloc_from_one(a, item) == [arena |-> Append(a, item), id |-> Len(a) + 1]

\* Arena::alloc
arena_alloc(a, item) == [arena |-> Append(a, item), id |-> Len(a)]
\* Arena::get / Arena::get_mut
arena_get(a, id) == IF id \in 0..(Len(a) - 1) THEN Some(a[id + 1]) ELSE None

contains_key(m, k) == k \in DOMAIN m
map_insert(m, k, v) == [x \in DOMAIN m \cup {k} |-> IF x = k THEN v ELSE m[x]]
map_get(m, k) == IF k \in DOMAIN m THEN Some(m[k]) ELSE None

RegistryHandle(id, nsid) == [id |-> id, nsid |-> nsid]
CategoryHandle(id, nsid) == [id |-> id, nsid |-> nsid]
ErrAlreadyRegistered == [tag |-> "ErrAlreadyRegistered"]
ErrCategoryAlreadyRegistered == [tag |-> "ErrCategoryAlreadyRegistered"]
OkHandle(h) == [tag |-> "Ok", handle |-> h]
Unit == [tag |-> "Unit"]
Bool(b) == [tag |-> "Bool", val |-> b]

Registry(a, m, ca, cm) ==
  [arena |-> a, nsid_map |-> m, category_arena |-> ca, category_nsid_map |-> cm]

\* register without the contains_key test
register_unchecked(reg, entry, nsid) ==
  LET al == arena_alloc(reg.arena, [val |-> entry, nsid |-> nsid])
      handle == RegistryHandle(al.id, nsid)
  IN  [reg |-> [reg EXCEPT !.arena = al.arena,
                           !.nsid_map = map_insert(reg.nsid_map, nsid, handle.id)],
       ret |-> OkHandle(handle)]

\* register that replaces the entry of an identifier it already has
register_replacing(reg, entry, nsid) ==
  IF contains_key(reg.nsid_map, nsid)
  THEN [reg |-> [reg EXCEPT !.arena[reg.nsid_map[nsid] + 1].val = entry],
        ret |-> OkHandle(RegistryHandle(reg.nsid_map[nsid], nsid))]
  ELSE register_unchecked(reg, entry, nsid)

\* register that also refuses an identifier a category has
register_checking_categories(reg, entry, nsid) ==
  IF contains_key(reg.nsid_map, nsid) \/ contains_key(reg.category_nsid_map, nsid)
  THEN [reg |-> reg, ret |-> ErrAlreadyRegistered]
  ELSE register_unchecked(reg, entry, nsid)

\* Registry::register
register(reg, entry, nsid) ==
  IF contains_key(reg.nsid_map, nsid)
  THEN [reg |-> reg, ret |-> ErrAlreadyRegistered]
  ELSE LET al == arena_alloc(reg.arena, [val |-> entry, nsid |-> nsid])
           handle == RegistryHandle(al.id, nsid)
       IN  [reg |-> [reg EXCEPT !.arena = al.arena,
                                !.nsid_map = map_insert(reg.nsid_map, nsid, handle.id)],
            ret |-> OkHandle(handle)]

\* register_category that adds the entries to the category it already has
register_category_merging(reg, nsid, entries) ==
  IF contains_key(reg.category_nsid_map, nsid)
  THEN [reg |-> [reg EXCEPT !.category_arena[reg.category_nsid_map[nsid] + 1].set =
                              @ \cup {entries[i].id : i \in 1..Len(entries)}],
        ret |-> ErrCategoryAlreadyRegistered]
  ELSE LET set == {entries[i].id : i \in 1..Len(entries)}
           al == arena_alloc(reg.category_arena, [set |-> set, nsid |-> nsid])
           handle == CategoryHandle(al.id, nsid)
       IN  [reg |-> [reg EXCEPT !.category_arena = al.arena,
                                !.category_nsid_map =
                                   map_insert(reg.category_nsid_map, nsid, handle.id)],
            ret |-> OkHandle(handle)]

\* register_category that does not read its iterator
register_category_empty(reg, nsid, entries) ==
  IF contains_key(reg.category_nsid_map, nsid)
  THEN [reg |-> reg, ret |-> ErrCategoryAlreadyRegistered]
  ELSE LET al == arena_alloc(reg.category_arena, [set |-> {}, nsid |-> nsid])
           handle == CategoryHandle(al.id, nsid)
       IN  [reg |-> [reg EXCEPT !.category_arena = al.arena,
                                !.category_nsid_map =
                                   map_insert(reg.category_nsid_map, nsid, handle.id)],
            ret |-> OkHandle(handle)]

\* Registry::register_category; entries is what the iterator yields
register_category(reg, nsid, entries) ==
  IF contains_key(reg.category_nsid_map, nsid)
  THEN [reg |-> reg, ret |-> ErrCategoryAlreadyRegistered]
  ELSE LET set == {entries[i].id : i \in 1..Len(entries)}
           al == arena_alloc(reg.category_arena, [set |-> set, nsid |-> nsid])
           handle == CategoryHandle(al.id, nsid)
       IN  [reg |-> [reg EXCEPT !.category_arena = al.arena,
                                !.category_nsid_map =
                                   map_insert(reg.category_nsid_map, nsid, handle.id)],
            ret |-> OkHandle(handle)]

\* Registry::register_empty_category
register_empty_category(reg, nsid) == register_category(reg, nsid, <<>>)

\* The three category mutators share their first line:
\* `&mut self.category_arena.get_mut(category.id).unwrap().0`,
\* then change the set there.
has_category(reg, category) == arena_get(reg.category_arena, category.id) # None
category_set(reg, category) == reg.category_arena[category.id + 1].set
put_category_set(reg, category, set) ==
  [reg EXCEPT !.category_arena[category.id + 1].set = set]

\* Registry::insert_into_category
insert_into_category(reg, category, entry) ==
  IF ~has_category(reg, category) THEN [reg |-> reg, ret |-> Panic]
  ELSE [reg |-> put_category_set(reg, category,
                                 category_set(reg, category) \cup {entry.id}),
        ret |-> Unit]

\* insert_many_into_category that assigns the collected set
insert_many_replacing(reg, category, entries) ==
  IF ~has_category(reg, category) THEN [reg |-> reg, ret |-> Panic]
  ELSE [reg |-> put_category_set(reg, category,
                                 {entries[i].id : i \in 1..Len(entries)}),
        ret |-> Unit]

\* Registry::insert_many_into_category
insert_many_into_category(reg, category, entries) ==
  IF ~has_category(reg, category) THEN [reg |-> reg, ret |-> Panic]
  ELSE [reg |-> put_category_set(reg, category,
                                 category_set(reg, category)
                                   \cup {entries[i].id : i \in 1..Len(entries)}),
        ret |-> Unit]

\* remove_from_category that reports membership after the removal
remove_reporting_after(reg, category, entry) ==
  IF ~has_category(reg, category) THEN [reg |-> reg, ret |-> Panic]
  ELSE [reg |-> put_category_set(reg, category,
                                 category_set(reg, category) \ {entry.id}),
        ret |-> Bool(entry.id \in category_set(reg, category) \ {entry.id})]

\* Registry::remove_from_category
remove_from_category(reg, category, entry) ==
  IF ~has_category(reg, category) THEN [reg |-> reg, ret |-> Panic]
  ELSE [reg |-> put_category_set(reg, category,
                                 category_set(reg, category) \ {entry.id}),
        ret |-> Bool(entry.id \in category_set(reg, category))]

\* Registry::lookup: `&self.arena.get(handle.id).unwrap().0`
lookup(reg, handle) ==
  IF arena_get(reg.arena, handle.id) = None THEN Panic
  ELSE arena_get(reg.arena, handle.id).val.val

\* Registry::get_nsid: `self.arena.get(handle.id).unwrap().1`
get_nsid(reg, handle) ==
  IF arena_get(reg.arena, handle.id) = None THEN Panic
  ELSE arena_get(reg.arena, handle.id).val.nsid

\* Registry::lookup_by_nsid
lookup_by_nsid(reg, nsid) ==
  IF map_get(reg.nsid_map, nsid) = None THEN None
  ELSE IF arena_get(reg.arena, map_get(reg.nsid_map, nsid).val) = None THEN Panic
  ELSE Some(arena_get(reg.arena, map_get(reg.nsid_map, nsid).val).val.val)

\* validate_nsid that looks the identifier up in the category index
validate_nsid_in_category_map(reg, nsid) ==
  IF map_get(reg.category_nsid_map, nsid) = None THEN None
  ELSE Some(RegistryHandle(map_get(reg.category_nsid_map, nsid).val, nsid))

\* Registry::validate_nsid
validate_nsid(reg, nsid) ==
  IF map_get(reg.nsid_map, nsid) = None THEN None
  ELSE Some(RegistryHandle(map_get(reg.nsid_map, nsid).val, nsid))

\* Registry::validate_category_nsid
validate_category_nsid(reg, nsid) ==
  IF map_get(reg.category_nsid_map, nsid) = None THEN None
  ELSE Some(CategoryHandle(map_get(reg.category_nsid_map, nsid).val, nsid))

\* iter that walks the arena from its last item
iter_newest_first(reg) ==
  [i \in 1..Len(reg.arena) |->
     [val |-> reg.arena[Len(reg.arena) + 1 - i].val,
      handle |-> RegistryHandle(Len(reg.arena) - i,
                                reg.arena[Len(reg.arena) + 1 - i].nsid)]]

\* Registry::iter: what the iterator yields, in arena order
iter(reg) ==
  [i \in 1..Len(reg.arena) |->
     [val |-> reg.arena[i].val, handle |-> RegistryHandle(i - 1, reg.arena[i].nsid)]]

\* AHashSet::iter: every member once, in an order the set chooses; these
\* are the orders it can choose.
set_iter(set) ==
  {o \in [1..Cardinality(set) -> set] : \A i, j \in 1..Cardinality(set) : o[i] = o[j] => i = j}

\* Registry::lookup_category: the sequences the iterator can yield
lookup_category(reg, category) ==
  IF ~has_category(reg, category) THEN {Panic}
  ELSE IF \E id \in category_set(reg, category) : arena_get(reg.arena, id) = None
  THEN {Panic}
  ELSE {[i \in 1..Len(o) |->
           [val |-> reg.arena[o[i] + 1].val,
            handle |-> RegistryHandle(o[i], reg.arena[o[i] + 1].nsid)]] :
        o \in set_iter(category_set(reg, category))}

\* Registry::lookup_category_by_nsid: the handles it yields are made with
\* the nsid it was given
lookup_category_by_nsid(reg, nsid) ==
  IF map_get(reg.category_nsid_map, nsid) = None THEN None
  ELSE LET id == map_get(reg.category_nsid_map, nsid).val
       IN  IF arena_get(reg.category_arena, id) = None THEN Panic
           ELSE IF \E e \in reg.category_arena[id + 1].set : arena_get(reg.arena, e) = None
           THEN Panic
           ELSE Some({[i \in 1..Len(o) |->
                         [val |-> reg.arena[o[i] + 1].val,
                          handle |-> RegistryHandle(o[i], nsid)]] :
                      o \in set_iter(reg.category_arena[id + 1].set)})

\* Registry::is_in_category
is_in_category(reg, entry, category) ==
  IF ~has_category(reg, category) THEN Panic
  ELSE entry.id \in category_set(reg, category)

---------------------------------------------------------------------------
(* SpecReg: one owner of a Registry<T> calls its mutating operations with  *)
(* identifiers from a bounded set and handles the registry has returned.   *)

MaxHandles == 2    \* longest iterator of handles given to a category call

Values == {42, 44}
\* two identifiers of one namespace, for values and for categories alike
RegIds == {NamespacedID(1, 2), NamespacedID(1, 3)}

Reg == Registry(arena, nsid_map, category_arena, category_nsid_map)

IssuedHandles == {issued[i].handle : i \in 1..Len(issued)}
HandleSeqs == UNION {[1..k -> IssuedHandles] : k \in 0..MaxHandles}

InitReg ==
  /\ interner = <<>>
  /\ hist = <<>>
  /\ writer = 0 /\ readers = {}
  /\ pc = <<>> /\ local = <<>> /\ ret = <<>> /\ held = <<>>
  /\ arena = <<>> /\ nsid_map = <<>>
  /\ category_arena = <<>> /\ category_nsid_map = <<>>
  /\ issued = <<>> /\ cissued = {}
  /\ rlast = [op |-> "new", ret |-> Unit]

\* The call's effect on the registry and what it returned.
Returns(op, r) ==
  /\ arena' = r.reg.arena
  /\ nsid_map' = r.reg.nsid_map
  /\ category_arena' = r.reg.category_arena
  /\ category_nsid_map' = r.reg.category_nsid_map
  /\ rlast' = [op |-> op, ret |-> r.ret]

Register(v, id) ==
  LET r == register(Reg, v, id)
  IN  /\ Returns("register", r)
      /\ issued' = IF r.ret.tag = "Ok"
                   THEN Append(issued, [handle |-> r.ret.handle, val |-> v, nsid |-> id])
                   ELSE issued
      /\ UNCHANGED <<cissued, nsidVars, lockVars>>

RegisterCategory(id, hs) ==
  LET r == register_category(Reg, id, hs)
  IN  /\ Returns("register_category", r)
      /\ cissued' = IF r.ret.tag = "Ok" THEN cissued \cup {r.ret.handle} ELSE cissued
      /\ UNCHANGED <<issued, nsidVars, lockVars>>

InsertIntoCategory(c, h) ==
  /\ Returns("insert_into_category", insert_into_category(Reg, c, h))
  /\ UNCHANGED <<issued, cissued, nsidVars, lockVars>>

InsertManyIntoCategory(c, hs) ==
  /\ Returns("insert_many_into_category", insert_many_into_category(Reg, c, hs))
  /\ UNCHANGED <<issued, cissued, nsidVars, lockVars>>

RemoveFromCategory(c, h) ==
  /\ Returns("remove_from_category", remove_from_category(Reg, c, h))
  /\ UNCHANGED <<issued, cissued, nsidVars, lockVars>>

NextReg ==
  \/ \E v \in Values, id \in RegIds : Register(v, id)
  \/ \E id \in RegIds, hs \in HandleSeqs : RegisterCategory(id, hs)
  \/ \E c \in cissued, h \in IssuedHandles : InsertIntoCategory(c, h)
  \/ \E c \in cissued, hs \in HandleSeqs : InsertManyIntoCategory(c, hs)
  \/ \E c \in cissued, h \in IssuedHandles : RemoveFromCategory(c, h)

SpecReg == InitReg /\ [][NextReg]_vars

---------------------------------------------------------------------------
(* The identifier grammar as the specification words it, for the claims.   *)

NamespaceAlphabet == (ChA..ChZ) \cup (Ch0..Ch9) \cup {ChDash, ChUnderscore}
PathAlphabet == NamespaceAlphabet \cup {ChDot, ChSlash}
LegalNamespace(s) == s # <<>> /\ \A i \in 1..Len(s) : s[i] \in NamespaceAlphabet
LegalPath(s) == s # <<>> /\ \A i \in 1..Len(s) : s[i] \in PathAlphabet

ColonsOf(s) == {i \in 1..Len(s) : s[i] = Colon}
FirstColon(s) == SetMin(ColonsOf(s))
NamespacePart(s) == SubSeq(s, 1, FirstColon(s) - 1)
\* positions (1-based, in the whole string) of the path's illegal characters
IllegalInPath(s) == {i \in (FirstColon(s) + 1)..Len(s) : s[i] \notin PathAlphabet}
IllegalIn(s) == {i \in 1..Len(s) : s[i] \notin NamespaceAlphabet}

SecondColon(s) == SetMin(ColonsOf(s) \ {FirstColon(s)})
\* what a namespace segment n must make a constructor return
NamespaceVerdict(n, r) ==
  /\ n = <<>> => r = InvalidNamespaceEmpty
  /\ IllegalIn(n) # {} =>
       r = InvalidNamespaceBadChar(SetMin(IllegalIn(n)) - 1, n[SetMin(IllegalIn(n))])

\* some thread holds the interner lock
LockHeld == writer # 0 \/ readers # {}

\* the orders in which the elements of a sequence can be taken
Reorderings(hs) == {[i \in 1..Len(hs) |-> hs[o[i]]] : o \in set_iter(1..Len(hs))}

RECURSIVE InsertEach(_, _, _)
\* insert_into_category for each element of hs in turn
InsertEach(reg, c, hs) ==
  IF hs = <<>> THEN reg
  ELSE InsertEach(insert_into_category(reg, c, Head(hs)).reg, c, Tail(hs))

\* how many of the pairs an iterator yielded carry a handle equal to h
TimesYielded(pairs, h) == Cardinality({i \in 1..Len(pairs) : pairs[i].handle.id = h.id})

CallsOf(op) == {i \in 1..Len(hist) : hist[i].op = op}
\* the step appends a call of op to hist
IsCall(op) == Len(hist') = Len(hist) + 1 /\ hist'[Len(hist')].op = op
NewArg == hist'[Len(hist')].arg
NewRet == hist'[Len(hist')].ret

---------------------------------------------------------------------------
(* C3: new_from_parts(namespace, path) succeeds only if the namespace is   *)
(* a legal namespace and the path is a legal path; with a legal namespace  *)
(* and an empty or illegal path it fails with an invalid-path error and    *)
(* leaves the interner as it was.                                          *)
C3_ConstructValidatesBothSegments ==
  [][IsCall("new_from_parts") =>
       /\ (NewRet.tag = "Ok" => LegalNamespace(NewArg[1]) /\ LegalPath(NewArg[2]))
       /\ (LegalNamespace(NewArg[1]) /\ ~LegalPath(NewArg[2]) =>
             NewRet.tag = "InvalidPath" /\ interner' = interner)]_vars

---------------------------------------------------------------------------
(* C6: round trip.  For a legal namespace n and a legal path p,            *)
(* new_from_parts(n, p) succeeds, formatting its result gives exactly      *)
(* n ":" p, and parsing that string succeeds with the same identifier.     *)
C6_RoundTrip ==
  \A i \in CallsOf("new_from_parts") :
    LET n == hist[i].arg[1]
        p == hist[i].arg[2]
    IN  LegalNamespace(n) /\ LegalPath(p) =>
          /\ hist[i].ret.tag = "Ok"
          /\ \A j \in CallsOf("fmt") :
               hist[j].arg[1] = hist[i].ret.id =>
                 hist[j].ret = Str(n \o <<Colon>> \o p)
          /\ \A k \in CallsOf("from_str") :
               hist[k].arg[1] = n \o <<Colon>> \o p =>
                 hist[k].ret = OkId(hist[i].ret.id)

\* construct, format and parse have all run on a legal pair whose path
\* uses a character the namespace alphabet lacks
C6_Witness ==
  /\ Len(hist) >= 3
  /\ hist[1].op = "new_from_parts" /\ hist[1].arg = << <<ChA>>, <<ChA, ChDot>> >>
  /\ hist[2].op = "fmt" /\ hist[2].arg[1] = hist[1].ret.id
  /\ hist[3].op = "from_str" /\ hist[3].arg[1] = hist[2].ret.str
  /\ hist[3].ret.tag = "Ok"

---------------------------------------------------------------------------
(* C7: when the part of s before the first ':' is a legal namespace and    *)
(* the part after it has a character outside the path alphabet, parsing s  *)
(* fails with InvalidPathChar(i, c): c the first such character, i its     *)
(* 0-based position, counted in characters, within the whole of s.         *)
C7_PathIndexInWholeString ==
  \A i \in CallsOf("from_str") :
    LET s == hist[i].arg[1]
    IN  (ColonsOf(s) # {} /\ LegalNamespace(NamespacePart(s)) /\ IllegalInPath(s) # {}) =>
          hist[i].ret = InvalidPathBadChar(SetMin(IllegalInPath(s)) - 1,
                                           s[SetMin(IllegalInPath(s))])

\* a path whose first illegal character is multi-byte, not at its start,
\* and followed by another multi-byte character
C7_Witness ==
  \E i \in CallsOf("from_str") :
    /\ hist[i].arg[1] = <<ChA, Colon, ChDot, ChEAcute, ChEAcute>>
       \/ hist[i].arg[1] = <<ChA, Colon, ChDot, ChEAcute>>
    /\ hist[i].ret = InvalidPathBadChar(3, ChEAcute)

---------------------------------------------------------------------------
(* C8 as stated: parsing "ab:c!d" fails with an invalid-path-character     *)
(* error for '!' whose index is 5.                                         *)
C8_SampleIndexFive ==
  \A i \in CallsOf("from_str") :
    hist[i].arg[1] = Sample1 => hist[i].ret = InvalidPathBadChar(5, ChBang)

(* C8 amended: parsing "ab:c!d" fails with an invalid-path-character error *)
(* for '!' whose index is 4, the 0-based position of '!' in the string.    *)
C8_SampleIndexFour ==
  \A i \in CallsOf("from_str") :
    hist[i].arg[1] = Sample1 => hist[i].ret = InvalidPathBadChar(4, ChBang)

C8_Witness ==
  \E i \in CallsOf("from_str") :
    hist[i].arg[1] = Sample1 /\ hist[i].ret.tag = "InvalidPath"

---------------------------------------------------------------------------
(* C9: a namespace segment (the namespace argument of new_from_parts, the  *)
(* part of the string before the first ':' in from_str) that is non-empty  *)
(* and has a character outside the namespace alphabet fails with           *)
(* InvalidNamespaceChar(i, c): c the first such character, i its 0-based   *)
(* index counted in characters; an empty one fails with EmptyNamespace.    *)
C9_NamespaceIndexInChars ==
  /\ \A i \in CallsOf("new_from_parts") : NamespaceVerdict(hist[i].arg[1], hist[i].ret)
  /\ \A i \in CallsOf("from_str") :
       ColonsOf(hist[i].arg[1]) # {} =>
         NamespaceVerdict(NamespacePart(hist[i].arg[1]), hist[i].ret)

\* a namespace segment with two multi-byte characters, the first of them
\* not at its start
C9_Witness ==
  \E i \in CallsOf("from_str") :
    /\ ColonsOf(hist[i].arg[1]) # {}
    /\ NamespacePart(hist[i].arg[1]) = <<ChA, ChEAcute, ChEAcute>>
    /\ hist[i].ret = InvalidNamespaceBadChar(1, ChEAcute)

---------------------------------------------------------------------------
(* C10 as stated: a string with no ':' fails with NoSeparator; a string    *)
(* with a legal namespace and a second ':' in its path fails with an       *)
(* invalid-path-character error for ':' at the index of that second colon; *)
(* in both cases the interner is unchanged.                                *)
C10_SplitsOnFirstColon ==
  [][IsCall("from_str") =>
       LET s == NewArg[1]
       IN  /\ ColonsOf(s) = {} => NewRet = NoSeparator /\ interner' = interner
           /\ (Cardinality(ColonsOf(s)) >= 2 /\ LegalNamespace(NamespacePart(s))) =>
                /\ NewRet = InvalidPathBadChar(SecondColon(s) - 1, Colon)
                /\ interner' = interner]_vars

(* C10 amended: a string with no ':' fails with NoSeparator; a string with *)
(* a legal namespace and a second ':' in its path fails with an            *)
(* invalid-path-character error for the first character of the path that   *)
(* is outside the path alphabet, at its index in the full string: that is  *)
(* the second colon when every character between the two colons is legal;  *)
(* in both cases the interner is unchanged.                                *)
C10_SplitsOnFirstColonAmended ==
  [][IsCall("from_str") =>
       LET s == NewArg[1]
       IN  /\ ColonsOf(s) = {} => NewRet = NoSeparator /\ interner' = interner
           /\ (Cardinality(ColonsOf(s)) >= 2 /\ LegalNamespace(NamespacePart(s))) =>
                /\ NewRet = InvalidPathBadChar(SetMin(IllegalInPath(s)) - 1,
                                               s[SetMin(IllegalInPath(s))])
                /\ (\A i \in (FirstColon(s) + 1)..(SecondColon(s) - 1) :
                      s[i] \in PathAlphabet) =>
                     NewRet = InvalidPathBadChar(SecondColon(s) - 1, Colon)
                /\ interner' = interner]_vars

\* "a:a:" has been parsed against an interner that already holds strings
C10_Witness ==
  /\ interner # <<>>
  /\ \E i \in CallsOf("from_str") :
       \/ /\ hist[i].arg[1] = <<ChA, Colon, ChA, Colon>>
          /\ hist[i].ret = InvalidPathBadChar(3, Colon)

---------------------------------------------------------------------------
(* C1: register(value, id) with id already in the value identifier index   *)
(* returns AlreadyRegistered and changes nothing: the arena, the index and *)
(* every category are as before, the index still maps id to the first      *)
(* entry, and lookup on the first registration's handle returns the first  *)
(* value.                                                                  *)
C1_ReRegisterRejected ==
  [][\A v \in Values, id \in RegIds :
       (Register(v, id) /\ contains_key(nsid_map, id)) =>
         /\ rlast'.ret = ErrAlreadyRegistered
         /\ UNCHANGED <<arena, nsid_map, category_arena, category_nsid_map>>
         /\ \A i \in 1..Len(issued) :
              issued[i].nsid = id =>
                /\ nsid_map'[id] = issued[i].handle.id
                /\ lookup(Registry(arena', nsid_map', category_arena', category_nsid_map'),
                          issued[i].handle) = issued[i].val]_vars

\* a second register under a taken identifier has just failed, in a
\* registry that has a category with a member
C1_Witness ==
  /\ rlast = [op |-> "register", ret |-> ErrAlreadyRegistered]
  /\ Len(issued) >= 1
  /\ \E c \in cissued : category_arena[c.id + 1].set # {}

---------------------------------------------------------------------------
(* C2: for every handle H returned by a successful register(v, id),        *)
(* whatever was called on the registry afterwards, lookup(H) is v and      *)
(* get_nsid(H) is id, and neither call fails.                              *)
C2_HandleTotality ==
  \A i \in 1..Len(issued) :
    /\ lookup(Reg, issued[i].handle) = issued[i].val
    /\ get_nsid(Reg, issued[i].handle) = issued[i].nsid

\* two different values are registered and a handle has just been removed
\* from a category
C2_Witness ==
  /\ Len(issued) = 2
  /\ issued[1].val # issued[2].val
  /\ rlast = [op |-> "remove_from_category", ret |-> Bool(TRUE)]
  /\ cissued # {}

---------------------------------------------------------------------------
(* C4: a resolution (namespace(), path(), dissolve(), Display) that meets  *)
(* a held write lock waits for it and then returns the string: no thread   *)
(* ever terminates fatally in a resolution, and a thread about to take the *)
(* read lock takes no step while another holds the write lock.             *)
C4_ResolutionBlocksUntilAvailable ==
  /\ [](\A t \in Threads : pc[t] # "panicked")
  /\ [][\A t \in Threads : (pc[t] = "try_read" /\ writer # 0) => pc'[t] = pc[t]]_vars

---------------------------------------------------------------------------
(* C5: a constructor that reaches try_write while another thread holds the *)
(* lock, as writer or as reader, does not wait: its step is enabled, it    *)
(* returns InternerError, it leaves the interner and the lock as they      *)
(* were, and the thread does not panic.                                    *)
C5_InterningNonBlocking ==
  /\ [](\A t \in Threads : pc[t] = "try_write" => ENABLED TryWrite(t))
  /\ [][\A t \in Threads :
          (pc[t] = "try_write" /\ LockHeld /\ pc'[t] # pc[t]) =>
            /\ ret'[t] = InternerError(WouldBlock)
            /\ pc'[t] = "idle"
            /\ interner' = interner
            /\ writer' = writer /\ readers' = readers]_vars

\* a constructor was turned away while the writer had interned the
\* namespace and not yet the path
C5_Witness ==
  \E t \in Threads, u \in Threads :
    /\ t # u
    /\ ret[t] = InternerError(WouldBlock) /\ pc[t] = "idle"
    /\ writer = u /\ pc[u] = "intern_path"

---------------------------------------------------------------------------
(* C11: category insertion is idempotent.  After insert_into_category(C,   *)
(* H), is_in_category(H, C) is true; inserting a handle that is already a  *)
(* member leaves the member set unchanged, and so would a second insert    *)
(* of H; lookup_category(C) yields H exactly once.  insert_many_into_      *)
(* category(C, hs) leaves the registry as inserting the elements of hs one *)
(* at a time does, in whatever order, and changes nothing when all of hs   *)
(* are members already.                                                    *)
C11_CategoryInsertIdempotent ==
  [][/\ \A c \in cissued, h \in IssuedHandles :
          (rlast'.op = "insert_into_category" /\ InsertIntoCategory(c, h)) =>
            /\ is_in_category(Reg', h, c) = TRUE
            /\ (is_in_category(Reg, h, c) = TRUE => category_arena' = category_arena)
            /\ insert_into_category(Reg', c, h).reg = Reg'
            /\ \A pairs \in lookup_category(Reg', c) : TimesYielded(pairs, h) = 1
     /\ \A c \in cissued, hs \in HandleSeqs :
          (rlast'.op = "insert_many_into_category" /\ InsertManyIntoCategory(c, hs)) =>
            /\ \A p \in Reorderings(hs) : Reg' = InsertEach(Reg, c, p)
            /\ (\A i \in 1..Len(hs) : is_in_category(Reg, hs[i], c) = TRUE) =>
                 category_arena' = category_arena
            /\ \A i \in 1..Len(hs) :
                 \A pairs \in lookup_category(Reg', c) : TimesYielded(pairs, hs[i]) = 1]_vars

\* an insert_many has just returned on a category that holds both
\* registered values
C11_Witness ==
  /\ rlast.op = "insert_many_into_category"
  /\ Len(issued) = 2
  /\ \E c \in cissued : Cardinality(category_set(Reg, c)) = 2

\* C12: remove_from_category(C, H) returns true exactly when H was a member
\* of C just before the call; afterwards H is not a member and the same call
\* again returns false.  Nothing else changes: the value arena, the value
\* identifier index, the category index, the other members of C, every other
\* category, and what lookup(H) returns.
C12_RemoveReportsAndFrames ==
  [][\A c \in cissued, h \in IssuedHandles :
       (rlast'.op = "remove_from_category" /\ RemoveFromCategory(c, h)) =>
         /\ rlast'.ret = Bool(is_in_category(Reg, h, c))
         /\ is_in_category(Reg', h, c) = FALSE
         /\ remove_from_category(Reg', c, h).ret = Bool(FALSE)
         /\ arena' = arena
         /\ nsid_map' = nsid_map
         /\ category_nsid_map' = category_nsid_map
         /\ Len(category_arena') = Len(category_arena)
         /\ \A g \in IssuedHandles :
              g.id # h.id => is_in_category(Reg', g, c) = is_in_category(Reg, g, c)
         /\ \A d \in cissued :
              d.id # c.id => category_arena'[d.id + 1] = category_arena[d.id + 1]
         /\ lookup(Reg', h) = lookup(Reg, h)
         /\ \E i \in 1..Len(issued) :
              issued[i].handle = h /\ lookup(Reg', h) = issued[i].val]_vars

\* a removal that returned true, from a category that keeps another member,
\* beside a second category that has members
C12_Witness ==
  /\ rlast.op = "remove_from_category"
  /\ rlast.ret = Bool(TRUE)
  /\ \E c, d \in cissued :
       /\ c.id # d.id
       /\ Cardinality(category_set(Reg, c)) = 1
       /\ category_set(Reg, d) # {}

\* C13: register_category(id, handles) on a registry that already has a
\* category under id returns CategoryAlreadyRegistered and changes nothing:
\* no category entry is allocated and the category under id keeps its member
\* set, the handles of the failed call not added.
C13_ReRegisterCategoryRejected ==
  [][\A id \in RegIds, hs \in HandleSeqs :
       (/\ rlast'.op = "register_category"
        /\ \E c \in cissued : c.nsid = id
        /\ RegisterCategory(id, hs)) =>
         /\ rlast'.ret = ErrCategoryAlreadyRegistered
         /\ Reg' = Reg
         /\ Len(category_arena') = Len(category_arena)
         /\ cissued' = cissued
         /\ \A c \in cissued :
              c.nsid = id => category_set(Reg', c) = category_set(Reg, c)]_vars

\* a failed register_category on a registry of two values and a category
\* that lacks one of them
C13_Witness ==
  /\ rlast.op = "register_category"
  /\ rlast.ret = ErrCategoryAlreadyRegistered
  /\ Len(issued) = 2
  /\ \E c \in cissued : Cardinality(category_set(Reg, c)) < 2

\* C14: after a successful register_category(id, handles) returning C, the
\* members of C are exactly the entries the handles name: is_in_category(H, C)
\* is true iff H equals (has the arena id of) some element of handles,
\* lookup_category(C) yields as many pairs as there are distinct handles, and
\* an empty input gives a category without members.
C14_CategoryMembersAreTheHandles ==
  [][\A id \in RegIds, hs \in HandleSeqs :
       (/\ rlast'.op = "register_category"
        /\ rlast'.ret.tag = "Ok"
        /\ RegisterCategory(id, hs)) =>
         LET C == rlast'.ret.handle
         IN  /\ C.nsid = id
             /\ \A h \in IssuedHandles :
                  is_in_category(Reg', h, C) = (\E i \in 1..Len(hs) : hs[i].id = h.id)
             /\ has_category(Reg', C)
             /\ \A pairs \in lookup_category(Reg', C) :
                  /\ Len(pairs) = Cardinality({hs[i] : i \in 1..Len(hs)})
                  /\ \A i \in 1..Len(hs) : TimesYielded(pairs, hs[i]) = 1
             /\ (hs = <<>> => /\ category_set(Reg', C) = {}
                              /\ Reg' = register_empty_category(Reg, id).reg)]_vars

\* a category just registered with one member while two values exist
C14_Witness ==
  /\ rlast.op = "register_category"
  /\ rlast.ret.tag = "Ok"
  /\ Len(issued) = 2
  /\ Cardinality(category_set(Reg, rlast.ret.handle)) = 1

\* C15: in every reachable registry state and for every identifier id,
\* validate_nsid(id) and lookup_by_nsid(id) return None, without failing, iff
\* no register call with id has succeeded; otherwise validate_nsid(id) returns
\* the handle that register call returned and lookup_by_nsid(id) the value
\* registered under id.  validate_category_nsid(id) returns a category handle
\* iff a category was registered under id, and then that category's handle.
C15_ValidateFindsWhatWasRegistered ==
  \A id \in RegIds :
    /\ validate_nsid(Reg, id) # Panic
    /\ lookup_by_nsid(Reg, id) # Panic
    /\ (validate_nsid(Reg, id) = None) = (\A i \in 1..Len(issued) : issued[i].nsid # id)
    /\ (lookup_by_nsid(Reg, id) = None) = (\A i \in 1..Len(issued) : issued[i].nsid # id)
    /\ \A i \in 1..Len(issued) :
         issued[i].nsid = id =>
           /\ validate_nsid(Reg, id) = Some(issued[i].handle)
           /\ lookup_by_nsid(Reg, id) = Some(issued[i].val)
    /\ (validate_category_nsid(Reg, id) = None) = (\A c \in cissued : c.nsid # id)
    /\ \A c \in cissued : c.nsid = id => validate_category_nsid(Reg, id) = Some(c)

\* one identifier is registered as a value only, the other as a category only
C15_Witness ==
  /\ Len(issued) = 1
  /\ Cardinality(cissued) = 1
  /\ \A c \in cissued : c.nsid # issued[1].nsid
  /\ lookup_by_nsid(Reg, issued[1].nsid) = Some(issued[1].val)
  /\ \A c \in cissued : /\ validate_nsid(Reg, c.nsid) = None
                        /\ validate_category_nsid(Reg, issued[1].nsid) = None

\* C16: after any sequence of operations iter() yields exactly one
\* (value, handle) pair per successful register call, in the order in which
\* those calls succeeded.  A successful register adds its pair at the end; a
\* failed register and every category operation add, remove and reorder
\* nothing, so iterating again over an unchanged registry yields the same.
C16_IterInRegistrationOrder ==
  [][/\ iter(Reg') = [i \in 1..Len(issued') |->
                        [val |-> issued'[i].val, handle |-> issued'[i].handle]]
     /\ IF rlast'.op = "register" /\ rlast'.ret.tag = "Ok"
        THEN /\ Len(iter(Reg')) = Len(iter(Reg)) + 1
             /\ SubSeq(iter(Reg'), 1, Len(iter(Reg))) = iter(Reg)
             /\ iter(Reg')[Len(iter(Reg'))].handle = rlast'.ret.handle
        ELSE iter(Reg') = iter(Reg)]_vars

\* a failed register on a registry of two values and a category
C16_Witness ==
  /\ rlast.op = "register"
  /\ rlast.ret = ErrAlreadyRegistered
  /\ Len(iter(Reg)) = 2
  /\ iter(Reg)[1].handle.id = 0 /\ iter(Reg)[2].handle.id = 1
  /\ cissued # {}

\* C17: in every reachable registry state the value identifier index is a
\* bijection between the registered identifiers and the arena entries: no two
\* identifiers map to the same arena id, every mapped id is a live arena
\* entry whose stored identifier is the key that maps to it, the index has as
\* many entries as the arena, and the handles of two distinct successful
\* register calls are never equal.  The same holds for the category index
\* and the category arena.
C17_IndexesAreBijections ==
  /\ \A k1, k2 \in DOMAIN nsid_map : nsid_map[k1] = nsid_map[k2] => k1 = k2
  /\ \A k \in DOMAIN nsid_map :
       /\ arena_get(arena, nsid_map[k]) # None
       /\ arena_get(arena, nsid_map[k]).val.nsid = k
  /\ Cardinality(DOMAIN nsid_map) = Len(arena)
  /\ DOMAIN nsid_map = {issued[i].nsid : i \in 1..Len(issued)}
  /\ \A i, j \in 1..Len(issued) : issued[i].handle.id = issued[j].handle.id => i = j
  /\ \A k1, k2 \in DOMAIN category_nsid_map :
       category_nsid_map[k1] = category_nsid_map[k2] => k1 = k2
  /\ \A k \in DOMAIN category_nsid_map :
       /\ arena_get(category_arena, category_nsid_map[k]) # None
       /\ arena_get(category_arena, category_nsid_map[k]).val.nsid = k
  /\ Cardinality(DOMAIN category_nsid_map) = Len(category_arena)
  /\ DOMAIN category_nsid_map = {c.nsid : c \in cissued}
  /\ Cardinality(cissued) = Len(category_arena)
  /\ \A c, d \in cissued : c.id = d.id => c = d

\* both indexes hold two identifiers
C17_Witness ==
  /\ Cardinality(DOMAIN nsid_map) = 2
  /\ Cardinality(DOMAIN category_nsid_map) = 2
  /\ Len(issued) = 2
  /\ Cardinality(cissued) = 2

\* C18: the identifier cached in a value handle is the one its entry was
\* registered under: for every value handle H that register, validate_nsid,
\* iter, lookup_category or lookup_category_by_nsid produces, H.get_nsid()
\* (the nsid field) equals registry.get_nsid(H); and
\* lookup_category_by_nsid(id) yields the same (value, handle) pairs, cached
\* identifiers included, as lookup_category(validate_category_nsid(id)).
C18_CachedNsidIsRegisteredNsid ==
  /\ \A i \in 1..Len(issued) :
       issued[i].handle.nsid = get_nsid(Reg, issued[i].handle)
  /\ \A id \in RegIds :
       validate_nsid(Reg, id) # None =>
         validate_nsid(Reg, id).val.nsid = get_nsid(Reg, validate_nsid(Reg, id).val)
  /\ \A i \in 1..Len(iter(Reg)) :
       iter(Reg)[i].handle.nsid = get_nsid(Reg, iter(Reg)[i].handle)
  /\ \A c \in cissued : \A pairs \in lookup_category(Reg, c) :
       \A i \in 1..Len(pairs) : pairs[i].handle.nsid = get_nsid(Reg, pairs[i].handle)
  /\ \A id \in RegIds :
       lookup_category_by_nsid(Reg, id) # None =>
         /\ \A pairs \in lookup_category_by_nsid(Reg, id).val :
              \A i \in 1..Len(pairs) :
                pairs[i].handle.nsid = get_nsid(Reg, pairs[i].handle)
         /\ lookup_category_by_nsid(Reg, id).val =
              lookup_category(Reg, validate_category_nsid(Reg, id).val)

\* C19: through every sequence of successful and failed constructions and
\* parses the interner is append-only and injective.  A token keeps resolving
\* to the string it was given for; interning a string the interner has seen
\* returns the token it has and adds nothing, interning a new one returns a
\* token that resolves to it; no string has two tokens.  So two identifiers
\* that threads hold are equal iff their namespace strings are equal and
\* their path strings are equal.
C19_InternerAppendOnlyInjective ==
  [][/\ Len(interner') >= Len(interner)
     /\ \A k \in 1..Len(interner) : resolve(interner', k) = resolve(interner, k)
     /\ \A i, j \in 1..Len(interner') : interner'[i] = interner'[j] => i = j
     /\ \A t \in Threads :
          /\ (pc[t] = "intern_ns" /\ pc'[t] = "intern_path") =>
               /\ resolve(interner', local'[t].ns_key) = local[t].ns
               /\ (rodeo_get(interner, local[t].ns) # {} =>
                     /\ interner' = interner
                     /\ local'[t].ns_key \in rodeo_get(interner, local[t].ns))
          /\ (pc[t] = "intern_path" /\ pc'[t] = "idle") =>
               /\ resolve(interner', held'[t].path) = local[t].path
               /\ held'[t].namespace = local[t].ns_key
               /\ (rodeo_get(interner, local[t].path) # {} =>
                     /\ interner' = interner
                     /\ held'[t].path \in rodeo_get(interner, local[t].path))
          /\ (ret'[t].tag # "Ok" /\ ret'[t] # ret[t]) => interner' = interner
     /\ \A t, u \in Threads :
          (held'[t] # NoId /\ held'[u] # NoId) =>
            ((held'[t] = held'[u]) =
               (/\ resolve(interner', held'[t].namespace) = resolve(interner', held'[u].namespace)
                /\ resolve(interner', held'[t].path) = resolve(interner', held'[u].path)))]_vars

\* two threads hold different identifiers of one namespace, and a parse has
\* just failed
C19_Witness ==
  /\ held[1] # NoId /\ held[2] # NoId
  /\ held[1] # held[2]
  /\ held[1].namespace = held[2].namespace
  /\ Len(interner) = 3
  /\ \E t \in Threads : ret[t] = NoSeparator

\* C20: values and categories are indexed independently.  Whether register
\* succeeds for an identifier depends only on the values registered, whatever
\* categories have the identifier, and whether register_category succeeds
\* only on the categories registered.  register leaves the category arena
\* (every member set) and the category index unchanged; register_category
\* and the category insert and remove operations leave the value arena and
\* the value identifier index unchanged.
C20_ValuesAndCategoriesIndependent ==
  [][/\ \A id \in RegIds, v \in Values :
          (register(Reg', v, id).ret.tag = "Ok")
            = (\A i \in 1..Len(issued') : issued'[i].nsid # id)
     /\ \A id \in RegIds :
          (register_empty_category(Reg', id).ret.tag = "Ok")
            = (\A c \in cissued' : c.nsid # id)
     /\ \A id \in RegIds, v \in Values :
          (rlast'.op = "register" /\ Register(v, id)) =>
            (rlast'.ret.tag = "Ok") = (\A i \in 1..Len(issued) : issued[i].nsid # id)
     /\ \A id \in RegIds :
          (rlast'.op = "register_category" /\ RegisterCategory(id, <<>>)) =>
            (rlast'.ret.tag = "Ok") = (\A c \in cissued : c.nsid # id)
     /\ rlast'.op = "register" =>
          /\ category_arena' = category_arena
          /\ category_nsid_map' = category_nsid_map
     /\ rlast'.op \in {"register_category", "insert_into_category",
                       "insert_many_into_category", "remove_from_category"} =>
          /\ arena' = arena
          /\ nsid_map' = nsid_map]_vars

\* a value was just registered under an identifier that a category with a
\* member already had, and the other identifier has a value and a category
C20_Witness ==
  /\ rlast.op = "register"
  /\ rlast.ret.tag = "Ok"
  /\ rlast.ret.handle.nsid \in DOMAIN category_nsid_map
  /\ DOMAIN nsid_map = DOMAIN category_nsid_map
  /\ Cardinality(DOMAIN nsid_map) = 2
  /\ \E c \in cissued : category_set(Reg, c) # {}

=============================================================================
